---- MODULE Spec2Model ----
(***************************************************************************)
(* Model of the question matcher of GeminiAI-integration/client.py:        *)
(* get_question (a regular-expression extraction) and                      *)
(* find_matching_question (collect, normalise, score, select).             *)
(* Texts are sequences of one-character strings.                           *)
(***************************************************************************)
EXTENDS Integers, Sequences, FiniteSets, TLC

VARIABLES kb_text, user_query, pc, q_num, extracted, i, all_questions,
          probed, user_words, best_match, highest_score, pos, result,
          query, question_text, scored, frames, server_process,
          copies, client, api_key, total_tokens_used, ppc, pq_query,
          response, tool_result, retval, log, calls, entry_tokens

\* the arguments and the outcome of a call of score_question
scorer_vars == <<query, question_text, scored>>

\* the frames of concurrent callers, and the module-level server_process
caller_vars == <<frames, server_process>>

\* the outcomes of the three copies of find_matching_question
copy_vars == <<copies>>

\* an MCPGenAIClient object and the locals of its process_query
client_vars == <<client, api_key, total_tokens_used, ppc, pq_query, response,
                 tool_result, retval, log, calls, entry_tokens>>

vars == <<kb_text, user_query, pc, q_num, extracted, i, all_questions,
          probed, user_words, best_match, highest_score, pos, result,
          scorer_vars, caller_vars, copy_vars, client_vars>>

(***************************************************************************)
(* Bounds of the model.                                                    *)
(***************************************************************************)
\* number of lines of a free-form knowledge base text
MaxLines == 3
\* number of entries of a knowledge base formatted by the tool host
MaxEntries == 10
\* largest index a direct call of get_question asks for
MaxIndex == 3

(***************************************************************************)
(* Characters and their classes, as Python's re and str see them.          *)
(***************************************************************************)
NL == "\n"

UpperSeq == <<"A", "B", "C", "D", "E", "F", "G", "H", "I", "J", "K", "L", "M",
             "N", "O", "P", "Q", "R", "S", "T", "U", "V", "W", "X", "Y", "Z">>

LowerSeq == <<"a", "b", "c", "d", "e", "f", "g", "h", "i", "j", "k", "l", "m",
             "n", "o", "p", "q", "r", "s", "t", "u", "v", "w", "x", "y", "z">>

\* [A-Z]
UpperChars == {UpperSeq[k] : k \in 1..Len(UpperSeq)}

LowerChars == {LowerSeq[k] : k \in 1..Len(LowerSeq)}

DigitChars == {"0", "1", "2", "3", "4", "5", "6", "7", "8", "9"}

\* \s of re, and the characters str.strip() and str.split() treat as blank
SpaceChars == {" ", NL}

\* \w of re: alphanumeric or underscore
IsWordChar(c) == c \in UpperChars \cup LowerChars \cup DigitChars \cup {"_"}

\* str.lower() on one character
LowerChar(c) ==
  IF c \in UpperChars
  THEN LowerSeq[CHOOSE k \in 1..Len(UpperSeq) : UpperSeq[k] = c]
  ELSE c

\* the decimal digits of the f-string {q_num}
DigitOf(d) == <<"0", "1", "2", "3", "4", "5", "6", "7", "8", "9">>[d + 1]

RECURSIVE DecStr(_)
DecStr(n) == IF n < 10 THEN <<DigitOf(n)>>
             ELSE DecStr(n \div 10) \o <<DigitOf(n % 10)>>

(***************************************************************************)
(* get_question: rf'Q{q_num}:\s*(.*?)(?=\n[A-Z]\d+:|$)' with re.DOTALL,    *)
(* searched leftmost, then group(1).strip().                               *)
(***************************************************************************)
NotFound == [found |-> FALSE, text |-> <<>>]

Found(t) == [found |-> TRUE, text |-> t]

\* the literal head of the pattern: Q{q_num}:
Marker(n) == <<"Q">> \o DecStr(n) \o <<":">>

HasAt(t, p, m) ==
  /\ p + Len(m) - 1 <= Len(t)
  /\ \A k \in 1..Len(m) : t[p + k - 1] = m[k]

\* positions at which the literal head matches
MarkerStarts(t, n) == {p \in 1..Len(t) : HasAt(t, p, Marker(n))}

Min(S) == CHOOSE x \in S : \A y \in S : x <= y

Max(S) == CHOOSE x \in S : \A y \in S : x >= y

\* \s* is greedy and never has to give back: the first position at or
\* after p that holds no whitespace (Len(t) + 1 when there is none)
SkipSpace(t, p) ==
  Min({e \in p..(Len(t) + 1) : e = Len(t) + 1 \/ t[e] \notin SpaceChars})

\* \d+: from position p on
DigitsThenColon(t, p) ==
  \E c \in (p + 1)..Len(t) :
    /\ t[c] = ":"
    /\ \A k \in p..(c - 1) : t[k] \in DigitChars

\* the lookahead (?=\n[A-Z]\d+:|$) at position e; without re.MULTILINE the
\* $ holds at the end of the text and before a newline that ends it
Lookahead(t, e) ==
  \/ e = Len(t) + 1
  \/ e = Len(t) /\ t[e] = NL
  \/ /\ e + 1 <= Len(t)
     /\ t[e] = NL
     /\ t[e + 1] \in UpperChars
     /\ DigitsThenColon(t, e + 2)

\* (.*?) is lazy: it ends at the first position where the lookahead holds
GroupEnd(t, p) == Min({e \in p..(Len(t) + 1) : Lookahead(t, e)})

\* str.strip()
Strip(t) ==
  LET keep == {k \in 1..Len(t) : t[k] \notin SpaceChars}
  IN  IF keep = {} THEN <<>> ELSE SubSeq(t, Min(keep), Max(keep))

\* as get_question, but with "or None" after the strip()
get_question_NoneOnEmpty(t, n) ==
  IF MarkerStarts(t, n) = {} THEN NotFound
  ELSE LET s == Min(MarkerStarts(t, n))
           p == SkipSpace(t, s + Len(Marker(n)))
           e == GroupEnd(t, p)
       IN  IF Strip(SubSeq(t, p, e - 1)) = <<>> THEN NotFound
           ELSE Found(Strip(SubSeq(t, p, e - 1)))

get_question(t, n) ==
  IF MarkerStarts(t, n) = {} THEN NotFound
  ELSE LET s == Min(MarkerStarts(t, n))
           p == SkipSpace(t, s + Len(Marker(n)))
           e == GroupEnd(t, p)
       IN  Found(Strip(SubSeq(t, p, e - 1)))

\* Python truth value of get_question's result: None and "" are false
Truthy(r) == r.found /\ r.text # <<>>

(***************************************************************************)
(* Normalisation and scoring of find_matching_question.                    *)
(***************************************************************************)
\* s.lower()
Lower(t) == [k \in 1..Len(t) |-> LowerChar(t[k])]

\* as StripPunct, but putting a blank where a character is dropped
RECURSIVE StripPunct_ToSpace(_)
StripPunct_ToSpace(t) ==
  IF t = <<>> THEN <<>>
  ELSE IF IsWordChar(Head(t)) \/ Head(t) \in SpaceChars
       THEN <<Head(t)>> \o StripPunct_ToSpace(Tail(t))
       ELSE <<" ">> \o StripPunct_ToSpace(Tail(t))

\* as StripPunct, but dropping nothing
StripPunct_Keep(t) == t

\* re.sub(r'[^\w\s]', '', s): drop what is neither \w nor \s
RECURSIVE StripPunct(_)
StripPunct(t) ==
  IF t = <<>> THEN <<>>
  ELSE IF IsWordChar(Head(t)) \/ Head(t) \in SpaceChars
       THEN <<Head(t)>> \o StripPunct(Tail(t))
       ELSE StripPunct(Tail(t))

\* set(s.split()): the maximal runs of non-blank characters
Split(t) ==
  LET IsStart(a) == t[a] \notin SpaceChars /\ (a = 1 \/ t[a - 1] \in SpaceChars)
      EndOf(a) == Min({b \in a..Len(t) :
                        b = Len(t) \/ t[b + 1] \in SpaceChars})
  IN  {SubSeq(t, a, EndOf(a)) : a \in {x \in 1..Len(t) : IsStart(x)}}

\* re.sub(r'[^\w\s]', '', text.lower()) followed by set(...split())
Words(t) == Split(StripPunct(Lower(t)))

\* len(user_words.intersection(q_words))
Score(uw, q_text) == Cardinality(uw \cap Words(q_text))

\* the words of q, with repetitions, that are among the words of t
CountOccurrences(q, t) ==
  LET c == StripPunct(Lower(q))
      IsStart(a) == c[a] \notin SpaceChars /\ (a = 1 \/ c[a - 1] \in SpaceChars)
      EndOf(a) == Min({b \in a..Len(c) :
                        b = Len(c) \/ c[b + 1] \in SpaceChars})
  IN  Cardinality({a \in 1..Len(c) :
                     IsStart(a) /\ SubSeq(c, a, EndOf(a)) \in Words(t)})

\* as score_question, but counting every occurrence of a word of the query
score_question_Multiset(q, t) ==
  [score          |-> CountOccurrences(q, t),
   matching_words |-> Words(q) \cap Words(t),
   user_words     |-> Words(q),
   q_words        |-> Words(t)]

\* score_question of tests/test.py: the returned pair, with the two word
\* sets it was computed from
score_question(q, t) ==
  LET clean_query    == StripPunct(Lower(q))
      clean_question == StripPunct(Lower(t))
      uw == Split(clean_query)
      qw == Split(clean_question)
      matching_words == uw \cap qw
  IN  [score          |-> Cardinality(matching_words),
       matching_words |-> matching_words,
       user_words     |-> uw,
       q_words        |-> qw]

NoScore == [score |-> 0, matching_words |-> {}, user_words |-> {},
            q_words |-> {}]

(***************************************************************************)
(* all_questions: a dict in insertion order, as a sequence of entries.     *)
(***************************************************************************)
Keys(d) == {d[k].q_num : k \in 1..Len(d)}

Lookup(d, key) == (CHOOSE k \in 1..Len(d) : d[k].q_num = key)

\* as Item, but always the first entry's text
Item_First(d, key) == d[1].q_text

Item(d, key) == d[Lookup(d, key)].q_text

RangeStop_Eleven == 10 + 1

\* range(1, 10) stops before this index
RangeStop == 10

DefaultMatch_Zero == 1 - 1

\* best_match = 1: the default when nothing scores above zero
DefaultMatch == 1

Better_Geq(score, highest) == score >= highest

Better_Positive(score, highest) == score > 0

\* if score > highest_score
Better(score, highest) == score > highest

(***************************************************************************)
(* Knowledge base texts.  Formatted ones are what the tool host's          *)
(* get_knowledge_base builds from a list of question/answer items;         *)
(* free-form ones are up to MaxLines lines joined by newlines.             *)
(***************************************************************************)
KbHeader == <<"H", "e", "r", "e", " ", "i", "s", " ", "t", "h", "e", " ",
              "r", "e", "t", "r", "i", "e", "v", "e", "d", " ",
              "k", "n", "o", "w", "l", "e", "d", "g", "e", " ",
              "b", "a", "s", "e", ":", NL, NL>>

\* kb_text += f"Q{i}: {question}\n" ; kb_text += f"A{i}: {answer}\n\n"
RECURSIVE FormatItems(_, _)
FormatItems(items, n) ==
  IF n = 0 THEN <<>>
  ELSE FormatItems(items, n - 1)
         \o <<"Q">> \o DecStr(n) \o <<":", " ">> \o items[n].question \o <<NL>>
         \o <<"A">> \o DecStr(n) \o <<":", " ">> \o items[n].answer \o <<NL, NL>>

FormatKB(items) == KbHeader \o FormatItems(items, Len(items))

\* a list of n items whose questions are "a?", but for item h, which asks "z?"
Items(n, h) ==
  [k \in 1..n |-> [question |-> IF k = h THEN <<"z", "?">> ELSE <<"a", "?">>,
                   answer   |-> <<"w", ".">>]]

FormattedTexts == {FormatKB(Items(n, h)) : n \in 1..MaxEntries, h \in 1..MaxEntries}

LineForms ==
  { <<>>,
    <<"b">>,
    <<"Q", "1", ":">>,
    <<"Q", "1", ":", " ", "a">>,
    <<"Q", "2", ":">>,
    <<"Q", "2", ":", " ", "A">>,
    <<"Q", "3", ":", " ", "z">>,
    <<"A", "1", ":", " ", "w">>,
    <<"Q", "1", ":", " ", "a", " ", "Q", "3", ":", " ", "z">> }

RECURSIVE JoinLines(_)
JoinLines(ls) ==
  IF ls = <<>> THEN <<>>
  ELSE IF Len(ls) = 1 THEN ls[1]
  ELSE ls[1] \o <<NL>> \o JoinLines(Tail(ls))

FreeTexts ==
  UNION {{JoinLines(ls) : ls \in [1..n -> LineForms]} : n \in 0..MaxLines}

Queries ==
  { <<>>,
    <<"B", " ", "a", "!">>,
    <<"z", "?">> }

(***************************************************************************)
(* The state machine: a call of get_question, or a call of                 *)
(* find_matching_question run one loop iteration at a time.                *)
(***************************************************************************)
NoResult == [index |-> 0, text |-> <<>>]

\* no copy of find_matching_question has run
NoOutcome == [pc |-> "idle", result |-> NoResult]

NoResponse == [kind |-> "None", parts |-> <<>>]

NoToolResult == [kind |-> "None", text |-> <<>>]

NoReturn == [kind |-> "None", exc |-> "None"]

\* no copy has run and no client object is in use
IdleClient ==
  /\ copies = <<>>
  /\ client = "gemini"
  /\ api_key = "None"
  /\ total_tokens_used = 0
  /\ ppc = "idle"
  /\ pq_query = <<>>
  /\ response = NoResponse
  /\ tool_result = NoToolResult
  /\ retval = NoReturn
  /\ log = <<>>
  /\ calls = 0
  /\ entry_tokens = 0

Init ==
  /\ kb_text \in FreeTexts \cup FormattedTexts
  /\ user_query = <<>>
  /\ pc = "idle"
  /\ q_num = 0
  /\ extracted = NotFound
  /\ i = 0
  /\ all_questions = <<>>
  /\ probed = <<>>
  /\ user_words = {}
  /\ best_match = 0
  /\ highest_score = 0
  /\ pos = 0
  /\ result = NoResult
  /\ query = <<>>
  /\ question_text = <<>>
  /\ scored = NoScore
  /\ frames = <<>>
  /\ server_process = "None"
  /\ IdleClient

\* a direct call get_question(kb_text, n)
CallGetQuestion(n) ==
  /\ pc = "idle"
  /\ pc' = "extracted"
  /\ q_num' = n
  /\ extracted' = get_question(kb_text, n)
  /\ UNCHANGED <<scorer_vars, caller_vars, copy_vars, client_vars>>
  /\ UNCHANGED <<kb_text, user_query, i, all_questions, probed, user_words,
                 best_match, highest_score, pos, result>>

\* find_matching_question(kb_text, q) is entered: all_questions = {}
CallFind(q) ==
  /\ pc = "idle"
  /\ pc' = "collect"
  /\ user_query' = q
  /\ all_questions' = <<>>
  /\ i' = 1
  /\ UNCHANGED <<scorer_vars, caller_vars, copy_vars, client_vars>>
  /\ UNCHANGED <<kb_text, q_num, extracted, probed, user_words, best_match,
                 highest_score, pos, result>>

\* one iteration of: for i in range(1, 10)
Probe ==
  /\ pc = "collect"
  /\ i < RangeStop
  /\ probed' = Append(probed, i)
  /\ LET q_text == get_question(kb_text, i)
     IN  IF Truthy(q_text)
         THEN /\ all_questions' = Append(all_questions,
                                         [q_num |-> i, q_text |-> q_text.text])
              /\ i' = i + 1
              /\ pc' = "collect"
         ELSE /\ pc' = "normalize"
              /\ UNCHANGED <<all_questions, i>>
  /\ UNCHANGED <<scorer_vars, caller_vars, copy_vars, client_vars>>
  /\ UNCHANGED <<kb_text, user_query, q_num, extracted, user_words,
                 best_match, highest_score, pos, result>>

\* range(1, 10) is exhausted
CollectDone ==
  /\ pc = "collect"
  /\ i >= RangeStop
  /\ pc' = "normalize"
  /\ UNCHANGED <<scorer_vars, caller_vars, copy_vars, client_vars>>
  /\ UNCHANGED <<kb_text, user_query, q_num, extracted, i, all_questions,
                 probed, user_words, best_match, highest_score, pos, result>>

\* the query is normalised; best_match = 1, highest_score = 0
Normalize ==
  /\ pc = "normalize"
  /\ user_words' = Words(user_query)
  /\ best_match' = DefaultMatch
  /\ highest_score' = 0
  /\ pos' = 1
  /\ pc' = "scan"
  /\ UNCHANGED <<scorer_vars, caller_vars, copy_vars, client_vars>>
  /\ UNCHANGED <<kb_text, user_query, q_num, extracted, i, all_questions,
                 probed, result>>

\* one iteration of: for q_num, q_text in all_questions.items()
ScoreStep ==
  /\ pc = "scan"
  /\ pos <= Len(all_questions)
  /\ LET score == Score(user_words, all_questions[pos].q_text)
     IN  IF Better(score, highest_score)
         THEN /\ highest_score' = score
              /\ best_match' = all_questions[pos].q_num
         ELSE UNCHANGED <<highest_score, best_match>>
  /\ pos' = pos + 1
  /\ UNCHANGED <<scorer_vars, caller_vars, copy_vars, client_vars>>
  /\ UNCHANGED <<kb_text, user_query, pc, q_num, extracted, i, all_questions,
                 probed, user_words, result>>

\* return best_match, all_questions[best_match]; a missing key raises KeyError
Return ==
  /\ pc = "scan"
  /\ pos > Len(all_questions)
  /\ IF best_match \in Keys(all_questions)
     THEN /\ result' = [index |-> best_match,
                        text |-> Item(all_questions, best_match)]
          /\ pc' = "returned"
     ELSE /\ pc' = "KeyError"
          /\ UNCHANGED result
  /\ UNCHANGED <<scorer_vars, caller_vars, copy_vars, client_vars>>
  /\ UNCHANGED <<kb_text, user_query, q_num, extracted, i, all_questions,
                 probed, user_words, best_match, highest_score, pos>>

Next ==
  \/ \E n \in 1..MaxIndex : CallGetQuestion(n)
  \/ \E q \in Queries : CallFind(q)
  \/ Probe
  \/ CollectDone
  \/ Normalize
  \/ ScoreStep
  \/ Return

Spec == Init /\ [][Next]_vars

(***************************************************************************)
(* The scorer on its own: score_question(query, question_text) applied to  *)
(* pairs of short texts that differ in case, punctuation and repetition.   *)
(***************************************************************************)
ScoreTexts ==
  { <<>>,
    <<"w", "h", "a", "t", " ", "i", "s", " ", "t", "h", "e", " ",
      "p", "o", "l", "i", "c", "y">>,
    <<"W", "h", "a", "t", " ", "I", "S", " ", "t", "h", "e", " ",
      "P", "o", "l", "i", "c", "y", "?">>,
    <<"t", "h", "e">>,
    <<"a">>,
    <<"A", "!">>,
    <<"a", " ", "a", " ", "b">>,
    <<"b", ",", " ", "a">>,
    <<"a", "_">>,
    <<"a", "_", "b">>,
    <<"a", "-", "b">>,
    <<"i", "t", "'", "s", " ", "a">> }

InitScore ==
  /\ kb_text = <<>>
  /\ user_query = <<>>
  /\ pc = "idle"
  /\ q_num = 0
  /\ extracted = NotFound
  /\ i = 0
  /\ all_questions = <<>>
  /\ probed = <<>>
  /\ user_words = {}
  /\ best_match = 0
  /\ highest_score = 0
  /\ pos = 0
  /\ result = NoResult
  /\ query = <<>>
  /\ question_text = <<>>
  /\ scored = NoScore
  /\ frames = <<>>
  /\ server_process = "None"
  /\ IdleClient

\* a call score_question(q, t)
ScoreCall(q, t) ==
  /\ pc = "idle"
  /\ pc' = "scored"
  /\ query' = q
  /\ question_text' = t
  /\ scored' = score_question(q, t)
  /\ UNCHANGED <<kb_text, user_query, q_num, extracted, i, all_questions,
                 probed, user_words, best_match, highest_score, pos, result,
                 caller_vars, copy_vars, client_vars>>

NextScore == \E q \in ScoreTexts, t \in ScoreTexts : ScoreCall(q, t)

SpecScore == InitScore /\ [][NextScore]_vars

(***************************************************************************)
(* The sample knowledge base of tests/test.py, with the matcher and the    *)
(* scorer of debug_matching_algorithm run on it.                           *)
(***************************************************************************)
SampleText ==
  <<"H", "e", "r", "e", " ", "i", "s", " ", "t", "h", "e", " ",
  "r", "e", "t", "r", "i", "e", "v", "e", "d", " ", "k", "n",
  "o", "w", "l", "e", "d", "g", "e", " ", "b", "a", "s", "e",
  ":", "\n", "\n", "Q", "1", ":", " ", "W", "h", "a", "t", " ",
  "i", "s", " ", "o", "u", "r", " ", "c", "o", "m", "p", "a",
  "n", "y", "'", "s", " ", "v", "a", "c", "a", "t", "i", "o",
  "n", " ", "p", "o", "l", "i", "c", "y", "?", "\n", "A", "1",
  ":", " ", "F", "u", "l", "l", "-", "t", "i", "m", "e", " ",
  "e", "m", "p", "l", "o", "y", "e", "e", "s", " ", "a", "r",
  "e", " ", "e", "n", "t", "i", "t", "l", "e", "d", " ", "t",
  "o", " ", "2", "0", " ", "p", "a", "i", "d", " ", "v", "a",
  "c", "a", "t", "i", "o", "n", " ", "d", "a", "y", "s", " ",
  "p", "e", "r", " ", "y", "e", "a", "r", ".", " ", "V", "a",
  "c", "a", "t", "i", "o", "n", " ", "d", "a", "y", "s", " ",
  "c", "a", "n", " ", "b", "e", " ", "t", "a", "k", "e", "n",
  " ", "a", "f", "t", "e", "r", " ", "c", "o", "m", "p", "l",
  "e", "t", "i", "n", "g", " ", "6", " ", "m", "o", "n", "t",
  "h", "s", " ", "o", "f", " ", "e", "m", "p", "l", "o", "y",
  "m", "e", "n", "t", ".", " ", "U", "n", "u", "s", "e", "d",
  " ", "v", "a", "c", "a", "t", "i", "o", "n", " ", "d", "a",
  "y", "s", " ", "c", "a", "n", " ", "b", "e", " ", "c", "a",
  "r", "r", "i", "e", "d", " ", "o", "v", "e", "r", " ", "t",
  "o", " ", "t", "h", "e", " ", "n", "e", "x", "t", " ", "y",
  "e", "a", "r", " ", "u", "p", " ", "t", "o", " ", "a", " ",
  "m", "a", "x", "i", "m", "u", "m", " ", "o", "f", " ", "5",
  " ", "d", "a", "y", "s", ".", " ", "V", "a", "c", "a", "t",
  "i", "o", "n", " ", "r", "e", "q", "u", "e", "s", "t", "s",
  " ", "s", "h", "o", "u", "l", "d", " ", "b", "e", " ", "s",
  "u", "b", "m", "i", "t", "t", "e", "d", " ", "a", "t", " ",
  "l", "e", "a", "s", "t", " ", "2", " ", "w", "e", "e", "k",
  "s", " ", "i", "n", " ", "a", "d", "v", "a", "n", "c", "e",
  " ", "t", "h", "r", "o", "u", "g", "h", " ", "t", "h", "e",
  " ", "H", "R", " ", "p", "o", "r", "t", "a", "l", ".", "\n",
  "\n", "Q", "2", ":", " ", "H", "o", "w", " ", "d", "o", " ",
  "I", " ", "r", "e", "q", "u", "e", "s", "t", " ", "a", " ",
  "n", "e", "w", " ", "s", "o", "f", "t", "w", "a", "r", "e",
  " ", "l", "i", "c", "e", "n", "s", "e", "?", "\n", "A", "2",
  ":", " ", "T", "o", " ", "r", "e", "q", "u", "e", "s", "t",
  " ", "a", " ", "n", "e", "w", " ", "s", "o", "f", "t", "w",
  "a", "r", "e", " ", "l", "i", "c", "e", "n", "s", "e", ",",
  " ", "p", "l", "e", "a", "s", "e", " ", "s", "u", "b", "m",
  "i", "t", " ", "a", " ", "t", "i", "c", "k", "e", "t", " ",
  "t", "h", "r", "o", "u", "g", "h", " ", "t", "h", "e", " ",
  "I", "T", " ", "S", "e", "r", "v", "i", "c", "e", " ", "D",
  "e", "s", "k", " ", "p", "o", "r", "t", "a", "l", ".", " ",
  "I", "n", "c", "l", "u", "d", "e", " ", "t", "h", "e", " ",
  "s", "o", "f", "t", "w", "a", "r", "e", " ", "n", "a", "m",
  "e", ",", " ", "v", "e", "r", "s", "i", "o", "n", ",", " ",
  "a", "n", "d", " ", "b", "u", "s", "i", "n", "e", "s", "s",
  " ", "j", "u", "s", "t", "i", "f", "i", "c", "a", "t", "i",
  "o", "n", ".", " ", "S", "t", "a", "n", "d", "a", "r", "d",
  " ", "s", "o", "f", "t", "w", "a", "r", "e", " ", "l", "i",
  "c", "e", "n", "s", "e", "s", " ", "a", "r", "e", " ", "t",
  "y", "p", "i", "c", "a", "l", "l", "y", " ", "a", "p", "p",
  "r", "o", "v", "e", "d", " ", "w", "i", "t", "h", "i", "n",
  " ", "2", " ", "b", "u", "s", "i", "n", "e", "s", "s", " ",
  "d", "a", "y", "s", ".", " ", "F", "o", "r", " ", "s", "p",
  "e", "c", "i", "a", "l", "i", "z", "e", "d", " ", "s", "o",
  "f", "t", "w", "a", "r", "e", ",", " ", "a", "p", "p", "r",
  "o", "v", "a", "l", " ", "m", "a", "y", " ", "t", "a", "k",
  "e", " ", "u", "p", " ", "t", "o", " ", "5", " ", "b", "u",
  "s", "i", "n", "e", "s", "s", " ", "d", "a", "y", "s", " ",
  "a", "n", "d", " ", "m", "a", "y", " ", "r", "e", "q", "u",
  "i", "r", "e", " ", "d", "e", "p", "a", "r", "t", "m", "e",
  "n", "t", " ", "h", "e", "a", "d", " ", "a", "p", "p", "r",
  "o", "v", "a", "l", ".", "\n", "\n", "Q", "3", ":", " ", "W",
  "h", "a", "t", " ", "i", "s", " ", "o", "u", "r", " ", "r",
  "e", "m", "o", "t", "e", " ", "w", "o", "r", "k", " ", "p",
  "o", "l", "i", "c", "y", "?", "\n", "A", "3", ":", " ", "O",
  "u", "r", " ", "c", "o", "m", "p", "a", "n", "y", " ", "f",
  "o", "l", "l", "o", "w", "s", " ", "a", " ", "h", "y", "b",
  "r", "i", "d", " ", "w", "o", "r", "k", " ", "m", "o", "d",
  "e", "l", ".", " ", "E", "m", "p", "l", "o", "y", "e", "e",
  "s", " ", "c", "a", "n", " ", "w", "o", "r", "k", " ", "r",
  "e", "m", "o", "t", "e", "l", "y", " ", "u", "p", " ", "t",
  "o", " ", "3", " ", "d", "a", "y", "s", " ", "p", "e", "r",
  " ", "w", "e", "e", "k", ".", " ", "R", "e", "m", "o", "t",
  "e", " ", "w", "o", "r", "k", " ", "d", "a", "y", "s", " ",
  "m", "u", "s", "t", " ", "b", "e", " ", "c", "o", "o", "r",
  "d", "i", "n", "a", "t", "e", "d", " ", "w", "i", "t", "h",
  " ", "y", "o", "u", "r", " ", "t", "e", "a", "m", " ", "a",
  "n", "d", " ", "a", "p", "p", "r", "o", "v", "e", "d", " ",
  "b", "y", " ", "y", "o", "u", "r", " ", "d", "i", "r", "e",
  "c", "t", " ", "m", "a", "n", "a", "g", "e", "r", ".", " ",
  "A", "l", "l", " ", "r", "e", "m", "o", "t", "e", " ", "w",
  "o", "r", "k", " ", "r", "e", "q", "u", "i", "r", "e", "s",
  " ", "a", " ", "s", "t", "a", "b", "l", "e", " ", "i", "n",
  "t", "e", "r", "n", "e", "t", " ", "c", "o", "n", "n", "e",
  "c", "t", "i", "o", "n", " ", "a", "n", "d", " ", "a", " ",
  "d", "e", "d", "i", "c", "a", "t", "e", "d", " ", "w", "o",
  "r", "k", "s", "p", "a", "c", "e", ".", " ", "C", "o", "r",
  "e", " ", "c", "o", "l", "l", "a", "b", "o", "r", "a", "t",
  "i", "o", "n", " ", "h", "o", "u", "r", "s", " ", "a", "r",
  "e", " ", "1", "0", ":", "0", "0", " ", "A", "M", " ", "t",
  "o", " ", "3", ":", "0", "0", " ", "P", "M", " ", "E", "S",
  "T", ".", "\n", "\n", "Q", "4", ":", " ", "H", "o", "w", " ",
  "d", "o", " ", "I", " ", "s", "u", "b", "m", "i", "t", " ",
  "a", "n", " ", "e", "x", "p", "e", "n", "s", "e", " ", "r",
  "e", "p", "o", "r", "t", "?", "\n", "A", "4", ":", " ", "E",
  "x", "p", "e", "n", "s", "e", " ", "r", "e", "p", "o", "r",
  "t", "s", " ", "s", "h", "o", "u", "l", "d", " ", "b", "e",
  " ", "s", "u", "b", "m", "i", "t", "t", "e", "d", " ", "t",
  "h", "r", "o", "u", "g", "h", " ", "t", "h", "e", " ", "c",
  "o", "m", "p", "a", "n", "y", "'", "s", " ", "e", "x", "p",
  "e", "n", "s", "e", " ", "m", "a", "n", "a", "g", "e", "m",
  "e", "n", "t", " ", "s", "y", "s", "t", "e", "m", ".", " ",
  "I", "n", "c", "l", "u", "d", "e", " ", "a", "l", "l", " ",
  "r", "e", "c", "e", "i", "p", "t", "s", ",", " ", "c", "a",
  "t", "e", "g", "o", "r", "i", "z", "e", " ", "e", "x", "p",
  "e", "n", "s", "e", "s", " ", "a", "p", "p", "r", "o", "p",
  "r", "i", "a", "t", "e", "l", "y", ",", " ", "a", "n", "d",
  " ", "a", "d", "d", " ", "a", " ", "b", "r", "i", "e", "f",
  " ", "d", "e", "s", "c", "r", "i", "p", "t", "i", "o", "n",
  " ", "f", "o", "r", " ", "e", "a", "c", "h", " ", "e", "n",
  "t", "r", "y", ".", " ", "R", "e", "p", "o", "r", "t", "s",
  " ", "m", "u", "s", "t", " ", "b", "e", " ", "s", "u", "b",
  "m", "i", "t", "t", "e", "d", " ", "w", "i", "t", "h", "i",
  "n", " ", "3", "0", " ", "d", "a", "y", "s", " ", "o", "f",
  " ", "t", "h", "e", " ", "e", "x", "p", "e", "n", "s", "e",
  ".", " ", "F", "o", "r", " ", "e", "x", "p", "e", "n", "s",
  "e", "s", " ", "o", "v", "e", "r", " ", "$", "1", "0", "0",
  ",", " ", "a", "d", "d", "i", "t", "i", "o", "n", "a", "l",
  " ", "d", "o", "c", "u", "m", "e", "n", "t", "a", "t", "i",
  "o", "n", " ", "m", "a", "y", " ", "b", "e", " ", "r", "e",
  "q", "u", "i", "r", "e", "d", ".", " ", "A", "l", "l", " ",
  "r", "e", "p", "o", "r", "t", "s", " ", "r", "e", "q", "u",
  "i", "r", "e", " ", "m", "a", "n", "a", "g", "e", "r", " ",
  "a", "p", "p", "r", "o", "v", "a", "l", ".", "\n", "\n", "Q",
  "5", ":", " ", "W", "h", "a", "t", " ", "i", "s", " ", "o",
  "u", "r", " ", "p", "r", "o", "c", "e", "s", "s", " ", "f",
  "o", "r", " ", "r", "e", "p", "o", "r", "t", "i", "n", "g",
  " ", "a", " ", "s", "e", "c", "u", "r", "i", "t", "y", " ",
  "i", "n", "c", "i", "d", "e", "n", "t", "?", "\n", "A", "5",
  ":", " ", "I", "f", " ", "y", "o", "u", " ", "d", "i", "s",
  "c", "o", "v", "e", "r", " ", "a", " ", "s", "e", "c", "u",
  "r", "i", "t", "y", " ", "i", "n", "c", "i", "d", "e", "n",
  "t", ",", " ", "i", "m", "m", "e", "d", "i", "a", "t", "e",
  "l", "y", " ", "c", "o", "n", "t", "a", "c", "t", " ", "t",
  "h", "e", " ", "S", "e", "c", "u", "r", "i", "t", "y", " ",
  "T", "e", "a", "m", " ", "a", "t", " ", "s", "e", "c", "u",
  "r", "i", "t", "y", "@", "c", "o", "m", "p", "a", "n", "y",
  ".", "c", "o", "m", " ", "o", "r", " ", "c", "a", "l", "l",
  " ", "t", "h", "e", " ", "2", "4", "/", "7", " ", "s", "e",
  "c", "u", "r", "i", "t", "y", " ", "h", "o", "t", "l", "i",
  "n", "e", ".", " ", "D", "o", " ", "n", "o", "t", " ", "a",
  "t", "t", "e", "m", "p", "t", " ", "t", "o", " ", "i", "n",
  "v", "e", "s", "t", "i", "g", "a", "t", "e", " ", "o", "r",
  " ", "r", "e", "s", "o", "l", "v", "e", " ", "t", "h", "e",
  " ", "i", "n", "c", "i", "d", "e", "n", "t", " ", "y", "o",
  "u", "r", "s", "e", "l", "f", ".", " ", "D", "o", "c", "u",
  "m", "e", "n", "t", " ", "w", "h", "a", "t", " ", "y", "o",
  "u", " ", "o", "b", "s", "e", "r", "v", "e", "d", ",", " ",
  "i", "n", "c", "l", "u", "d", "i", "n", "g", " ", "t", "i",
  "m", "e", "s", "t", "a", "m", "p", "s", " ", "a", "n", "d",
  " ", "a", "f", "f", "e", "c", "t", "e", "d", " ", "s", "y",
  "s", "t", "e", "m", "s", ".", " ", "T", "h", "e", " ", "S",
  "e", "c", "u", "r", "i", "t", "y", " ", "T", "e", "a", "m",
  " ", "w", "i", "l", "l", " ", "g", "u", "i", "d", "e", " ",
  "y", "o", "u", " ", "t", "h", "r", "o", "u", "g", "h", " ",
  "t", "h", "e", " ", "i", "n", "c", "i", "d", "e", "n", "t",
  " ", "r", "e", "s", "p", "o", "n", "s", "e", " ", "p", "r",
  "o", "c", "e", "s", "s", " ", "a", "n", "d", " ", "m", "a",
  "y", " ", "n", "e", "e", "d", " ", "y", "o", "u", "r", " ",
  "a", "s", "s", "i", "s", "t", "a", "n", "c", "e", " ", "f",
  "o", "r", " ", "i", "n", "v", "e", "s", "t", "i", "g", "a",
  "t", "i", "o", "n", ".">>

ExpenseQuery ==
  <<"H", "o", "w", " ", "c", "a", "n", " ", "I", " ", "s", "u",
  "b", "m", "i", "t", " ", "a", " ", "r", "e", "p", "o", "r",
  "t", " ", "o", "n", " ", "e", "x", "p", "e", "n", "s", "e",
  "s", "?">>

VacationQuery ==
  <<"W", "h", "a", "t", " ", "i", "s", " ", "o", "u", "r", " ",
  "c", "o", "m", "p", "a", "n", "y", "'", "s", " ", "v", "a",
  "c", "a", "t", "i", "o", "n", " ", "p", "o", "l", "i", "c",
  "y", "?">>

SampleQueries ==
  { ExpenseQuery,
    VacationQuery,
    <<>>,
    <<"W", "h", "a", "t", " ", "i", "s", " ", "o", "u", "r", " ",
      "r", "e", "m", "o", "t", "e", " ", "w", "o", "r", "k", " ",
      "p", "o", "l", "i", "c", "y", "?">>,
    <<"s", "e", "c", "u", "r", "i", "t", "y", " ", "i", "n", "c",
      "i", "d", "e", "n", "t">>,
    <<"H", "o", "w", " ", "d", "o", " ", "I", " ", "r", "e", "q",
      "u", "e", "s", "t", " ", "a", " ", "n", "e", "w", " ", "s",
      "o", "f", "t", "w", "a", "r", "e", " ", "l", "i", "c", "e",
      "n", "s", "e", "?">> }

\* the state before any call
IdleLocals ==
  /\ user_query = <<>>
  /\ pc = "idle"
  /\ q_num = 0
  /\ extracted = NotFound
  /\ i = 0
  /\ all_questions = <<>>
  /\ probed = <<>>
  /\ user_words = {}
  /\ best_match = 0
  /\ highest_score = 0
  /\ pos = 0
  /\ result = NoResult
  /\ query = <<>>
  /\ question_text = <<>>
  /\ scored = NoScore
  /\ server_process = "None"

InitSample ==
  /\ kb_text = SampleText
  /\ frames = <<>>
  /\ IdleLocals
  /\ IdleClient

\* range(1, 6) of debug_matching_algorithm stops before this index
DebugStop == 6

\* one iteration of debug_matching_algorithm's loop for the query q:
\* question = get_question(kb_text, n); score_question(q, question)
DebugScore(q, n) ==
  /\ pc = "idle"
  /\ get_question(kb_text, n).found
  /\ pc' = "scored"
  /\ q_num' = n
  /\ extracted' = get_question(kb_text, n)
  /\ query' = q
  /\ question_text' = get_question(kb_text, n).text
  /\ scored' = score_question(q, get_question(kb_text, n).text)
  /\ UNCHANGED <<kb_text, user_query, i, all_questions, probed, user_words,
                 best_match, highest_score, pos, result, caller_vars,
                 copy_vars, client_vars>>

NextSample ==
  \/ \E q \in SampleQueries : CallFind(q)
  \/ Probe
  \/ Normalize
  \/ ScoreStep
  \/ Return
  \/ \E q \in SampleQueries, n \in 1..(DebugStop - 1) : DebugScore(q, n)

SpecSample == InitSample /\ [][NextSample]_vars

(***************************************************************************)
(* find_matching_question as one function of its arguments: the outcome    *)
(* of an invocation that runs alone.                                       *)
(***************************************************************************)
RECURSIVE CollectFrom(_, _)
CollectFrom(kb, n) ==
  IF n >= RangeStop \/ ~Truthy(get_question(kb, n)) THEN <<>>
  ELSE <<[q_num |-> n, q_text |-> get_question(kb, n).text]>>
         \o CollectFrom(kb, n + 1)

\* the scoring loop from entry k on: <<best_match, highest_score>> at its end
RECURSIVE ScanFrom(_, _, _, _, _)
ScanFrom(d, uw, k, best, highest) ==
  IF k > Len(d) THEN <<best, highest>>
  ELSE IF Better(Score(uw, d[k].q_text), highest)
       THEN ScanFrom(d, uw, k + 1, d[k].q_num, Score(uw, d[k].q_text))
       ELSE ScanFrom(d, uw, k + 1, best, highest)

find_matching_question(kb, q) ==
  LET d    == CollectFrom(kb, 1)
      best == ScanFrom(d, Words(q), 1, DefaultMatch, 0)[1]
  IN  IF best \in Keys(d)
      THEN [pc |-> "returned",
            result |-> [index |-> best, text |-> Item(d, best)]]
      ELSE [pc |-> "KeyError", result |-> NoResult]

(***************************************************************************)
(* The other two copies of find_matching_question.  Their get_question and *)
(* their collector loop are the same statements as in                      *)
(* GeminiAI-integration/client.py; the normalisation is each copy's own.   *)
(***************************************************************************)
\* openAI-integration/client.py: set(s.lower().split()), nothing dropped
openai_Words(t) == Split(Lower(t))

\* openAI-integration/client.py: the scoring loop from entry k on
RECURSIVE openai_ScanFrom(_, _, _, _, _)
openai_ScanFrom(d, uw, k, best, highest) ==
  LET score == Cardinality(uw \cap openai_Words(d[k].q_text))
  IN  IF k > Len(d) THEN <<best, highest>>
      ELSE IF score > highest
           THEN openai_ScanFrom(d, uw, k + 1, d[k].q_num, score)
           ELSE openai_ScanFrom(d, uw, k + 1, best, highest)

openai_find_matching_question(kb, q) ==
  LET d    == CollectFrom(kb, 1)
      best == openai_ScanFrom(d, openai_Words(q), 1, 1, 0)[1]
  IN  IF best \in Keys(d)
      THEN [pc |-> "returned",
            result |-> [index |-> best, text |-> Item(d, best)]]
      ELSE [pc |-> "KeyError", result |-> NoResult]

\* tests/test.py: the scoring loop from entry k on; q_text is rebound to
\* its cleaned form, the dict keeps the text as collected
RECURSIVE test_ScanFrom(_, _, _, _, _)
test_ScanFrom(d, uw, k, best, highest) ==
  LET q_text  == StripPunct(Lower(d[k].q_text))
      q_words == Split(q_text)
      score   == Cardinality(uw \cap q_words)
  IN  IF k > Len(d) THEN <<best, highest>>
      ELSE IF score > highest
           THEN test_ScanFrom(d, uw, k + 1, d[k].q_num, score)
           ELSE test_ScanFrom(d, uw, k + 1, best, highest)

test_find_matching_question(kb, q) ==
  LET d          == CollectFrom(kb, 1)
      clean      == StripPunct(Lower(q))
      uw         == Split(clean)
      best       == test_ScanFrom(d, uw, 1, 1, 0)[1]
  IN  IF best \in Keys(d)
      THEN [pc |-> "returned",
            result |-> [index |-> best, text |-> Item(d, best)]]
      ELSE [pc |-> "KeyError", result |-> NoResult]

\* the arguments, locals and outcome of the step model of the matcher
matcher_vars == <<user_query, pc, q_num, extracted, i, all_questions, probed,
                  user_words, best_match, highest_score, pos, result>>

CopyNames == {"gemini", "openai", "test"}

\* the copy named c applied to (kb, q)
CopyOutcome(c, kb, q) ==
  CASE c = "gemini" -> find_matching_question(kb, q)
    [] c = "openai" -> openai_find_matching_question(kb, q)
    [] c = "test"   -> test_find_matching_question(kb, q)

InitCopies ==
  /\ kb_text \in FreeTexts \cup FormattedTexts
  /\ frames = <<>>
  /\ IdleLocals
  /\ IdleClient

\* a pair (kb_text, q) is put to the three copies
AskCopies(q) ==
  /\ pc = "idle"
  /\ pc' = "asked"
  /\ user_query' = q
  /\ copies' = [c \in CopyNames |-> NoOutcome]
  /\ UNCHANGED <<kb_text, q_num, extracted, i, all_questions, probed,
                 user_words, best_match, highest_score, pos, result,
                 scorer_vars, caller_vars, client_vars>>

\* the copy named c is called with (kb_text, user_query)
RunCopy(c) ==
  /\ pc = "asked"
  /\ copies[c].pc = "idle"
  /\ copies' = [copies EXCEPT ![c] = CopyOutcome(c, kb_text, user_query)]
  /\ UNCHANGED <<kb_text, matcher_vars, scorer_vars, caller_vars,
                 client_vars>>

NextCopies ==
  \/ \E q \in Queries : AskCopies(q)
  \/ RunCopy("gemini")
  \/ RunCopy("openai")
  \/ RunCopy("test")

SpecCopies == InitCopies /\ [][NextCopies]_vars

(***************************************************************************)
(* Several callers inside find_matching_question at once, each with its    *)
(* own frame of local variables, their statements interleaved.  kb_text    *)
(* is the text all of them were handed.                                    *)
(***************************************************************************)
\* number of concurrent callers
NumCallers == 2

Callers == 1..NumCallers

CallerTexts ==
  { <<"Q", "1", ":">>,
    <<"Q", "1", ":", " ", "a">>,
    <<"Q", "1", ":", " ", "a", NL, "Q", "2", ":", " ", "z", NL, "b">> }

IdleFrame ==
  [pc |-> "idle", user_query |-> <<>>, i |-> 0, all_questions |-> <<>>,
   user_words |-> {}, best_match |-> 0, highest_score |-> 0, pos |-> 0,
   result |-> NoResult, overlap |-> FALSE]

\* as DictOf, but with all_questions a module-level dict all callers share
DictOf_Shared(c) == 1

\* the frame that holds caller c's all_questions: a local, made at line 45
DictOf(c) == c

\* d[key] = text
Put(d, key, text) ==
  IF key \in Keys(d)
  THEN [d EXCEPT ![Lookup(d, key)] = [q_num |-> key, q_text |-> text]]
  ELSE Append(d, [q_num |-> key, q_text |-> text])

Running(f) == f.pc \in {"collect", "normalize", "scan"}

InitCallers ==
  /\ kb_text \in CallerTexts
  /\ frames = [c \in Callers |-> IdleFrame]
  /\ IdleLocals
  /\ IdleClient

\* caller c enters find_matching_question(kb_text, q); overlap records
\* whether another invocation is under way at that moment
FrameCall(c, q) ==
  /\ frames[c].pc = "idle"
  /\ frames' = [[frames EXCEPT ![c].pc = "collect",
                               ![c].user_query = q,
                               ![c].i = 1,
                               ![c].overlap =
                                  \E o \in Callers \ {c} : Running(frames[o])]
                  EXCEPT ![DictOf(c)].all_questions = <<>>]
  /\ UNCHANGED <<kb_text, matcher_vars, scorer_vars, server_process,
                 copy_vars, client_vars>>

FrameProbe(c) ==
  /\ frames[c].pc = "collect"
  /\ frames[c].i < RangeStop
  /\ LET q_text == get_question(kb_text, frames[c].i)
     IN  IF Truthy(q_text)
         THEN frames' = [[frames EXCEPT ![c].i = frames[c].i + 1]
                           EXCEPT ![DictOf(c)].all_questions =
                             Put(frames[DictOf(c)].all_questions,
                                 frames[c].i, q_text.text)]
         ELSE frames' = [frames EXCEPT ![c].pc = "normalize"]
  /\ UNCHANGED <<kb_text, matcher_vars, scorer_vars, server_process,
                 copy_vars, client_vars>>

FrameNormalize(c) ==
  /\ frames[c].pc = "normalize"
  /\ frames' = [frames EXCEPT ![c].user_words = Words(frames[c].user_query),
                              ![c].best_match = DefaultMatch,
                              ![c].highest_score = 0,
                              ![c].pos = 1,
                              ![c].pc = "scan"]
  /\ UNCHANGED <<kb_text, matcher_vars, scorer_vars, server_process,
                 copy_vars, client_vars>>

FrameScoreStep(c) ==
  /\ frames[c].pc = "scan"
  /\ frames[c].pos <= Len(frames[DictOf(c)].all_questions)
  /\ LET entry == frames[DictOf(c)].all_questions[frames[c].pos]
         score == Score(frames[c].user_words, entry.q_text)
     IN  IF Better(score, frames[c].highest_score)
         THEN frames' = [frames EXCEPT ![c].highest_score = score,
                                       ![c].best_match = entry.q_num,
                                       ![c].pos = frames[c].pos + 1]
         ELSE frames' = [frames EXCEPT ![c].pos = frames[c].pos + 1]
  /\ UNCHANGED <<kb_text, matcher_vars, scorer_vars, server_process,
                 copy_vars, client_vars>>

FrameReturn(c) ==
  /\ frames[c].pc = "scan"
  /\ frames[c].pos > Len(frames[DictOf(c)].all_questions)
  /\ IF frames[c].best_match \in Keys(frames[DictOf(c)].all_questions)
     THEN frames' = [frames EXCEPT
                       ![c].pc = "returned",
                       ![c].result =
                          [index |-> frames[c].best_match,
                           text  |-> Item(frames[DictOf(c)].all_questions,
                                          frames[c].best_match)]]
     ELSE frames' = [frames EXCEPT ![c].pc = "KeyError"]
  /\ UNCHANGED <<kb_text, matcher_vars, scorer_vars, server_process,
                 copy_vars, client_vars>>

NextCallers ==
  \E c \in Callers :
    \/ \E q \in Queries : FrameCall(c, q)
    \/ FrameProbe(c)
    \/ FrameNormalize(c)
    \/ FrameScoreStep(c)
    \/ FrameReturn(c)

SpecCallers == InitCallers /\ [][NextCallers]_vars

(***************************************************************************)
(* MCPGenAIClient.process_query, one step per awaited call.  client names  *)
(* the integration the object belongs to; the two process_query methods    *)
(* are the same statements around their own find_matching_question.        *)
(***************************************************************************)
\* number of process_query calls made on one client object
MaxCalls == 2
\* largest value of estimated_tokens for one response
MaxTokens == 1
\* largest number of parts of a response
MaxParts == 2

Clients == {"gemini", "openai"}

\* self.api_key: config('GOOGLE_API_KEY', default=None)
ApiKeys == {"None", "", "key"}

\* a part of the first response: text, or a function call with a name
TextPart == [function_call |-> "None"]

CallPart(name) == [function_call |-> name]

PartForms == {TextPart, CallPart("get_knowledge_base"), CallPart("add")}

\* the first response: without candidates, or with the parts of candidates[0]
Responses ==
  {[kind |-> "no_candidates", parts |-> <<>>]}
    \cup {[kind |-> "parts", parts |-> ps] :
            ps \in UNION {[1..n -> PartForms] : n \in 0..MaxParts}}

\* positions of the parts of r that carry a function call
CallParts(r) == {k \in 1..Len(r.parts) : r.parts[k].function_call # "None"}

\* as FirstCall, but walking on through the parts: the last call wins
FirstCall_Last(r) == Max(CallParts(r))

\* the part the loop over the parts stops at: the first function call
FirstCall(r) == Min(CallParts(r))

\* as KeySet, but testing for None only
KeySet_NotNone(k) == k # "None"

\* Python truth value of self.api_key
KeySet(k) == k \notin {"None", ""}

\* get_knowledge_base's answer when data/kb.json is missing
NotFoundText ==
  <<"E", "r", "r", "o", "r", ":", " ", "K", "n", "o", "w", "l",
    "e", "d", "g", "e", " ", "b", "a", "s", "e", " ", "f", "i",
    "l", "e", " ", "n", "o", "t", " ", "f", "o", "u", "n", "d">>

\* result.content of the tool call: no item, or one text item
ToolResults ==
  {[kind |-> "empty", text |-> <<>>]}
    \cup {[kind |-> "text", text |-> t] :
            t \in {NotFoundText, <<"3">>, <<"Q", "1", ":">>, KbHeader,
                   FormatKB(Items(1, 1)), FormatKB(Items(2, 1))}}

\* the find_matching_question of the module the client object lives in
Matcher(c, kb, q) ==
  IF c = "openai" THEN openai_find_matching_question(kb, q)
  ELSE find_matching_question(kb, q)

\* as Caught, but with an except clause for the API's own errors only
Caught_ApiOnly(exc) == exc = "APIError"

\* except Exception as e: every exception raised inside the try block
Caught(exc) == TRUE

Event(ev, arg) == [ev |-> ev, arg |-> arg]

InitQuery ==
  /\ kb_text = <<>>
  /\ frames = <<>>
  /\ IdleLocals
  /\ copies = <<>>
  /\ client \in Clients
  /\ api_key \in ApiKeys
  /\ total_tokens_used = 0
  /\ ppc = "idle"
  /\ pq_query = <<>>
  /\ response = NoResponse
  /\ tool_result = NoToolResult
  /\ retval = NoReturn
  /\ log = <<>>
  /\ calls = 0
  /\ entry_tokens = 0

\* what process_query does not touch
other_vars == <<user_query, pc, q_num, extracted, i, all_questions, probed,
                user_words, best_match, highest_score, pos, scorer_vars,
                caller_vars, copy_vars>>

\* an exception exc is raised inside the try block: the except clause turns
\* it into the returned error string, or it leaves process_query
Raised(exc) ==
  IF Caught(exc)
  THEN /\ ppc' = "returned"
       /\ retval' = [kind |-> "Error", exc |-> exc]
  ELSE /\ ppc' = "raised"
       /\ retval' = [kind |-> "None", exc |-> exc]

\* process_query(q) is entered and awaits get_mcp_tools()
ProcessQuery(q) ==
  /\ ppc \in {"idle", "returned", "raised"}
  /\ calls < MaxCalls
  /\ calls' = calls + 1
  /\ ppc' = "list_tools"
  /\ pq_query' = q
  /\ entry_tokens' = total_tokens_used
  /\ response' = NoResponse
  /\ tool_result' = NoToolResult
  /\ retval' = NoReturn
  /\ log' = <<>>
  /\ kb_text' = <<>>
  /\ result' = NoResult
  /\ UNCHANGED <<client, api_key, total_tokens_used, other_vars>>

\* the tools are listed; without an API key the error string is returned,
\* with one the first request is sent
ToolsListed ==
  /\ ppc = "list_tools"
  /\ IF ~KeySet(api_key)
     THEN /\ ppc' = "returned"
          /\ retval' = [kind |-> "NoKey", exc |-> "None"]
          /\ UNCHANGED log
     ELSE /\ ppc' = "first_request"
          /\ log' = Append(log, Event("llm_request", ""))
          /\ UNCHANGED retval
  /\ UNCHANGED <<kb_text, result, client, api_key, total_tokens_used,
                 pq_query, response, tool_result, calls, entry_tokens,
                 other_vars>>

\* session.list_tools() raises: outside the try block, nothing catches it
ListToolsFails ==
  /\ ppc = "list_tools"
  /\ ppc' = "raised"
  /\ retval' = [kind |-> "None", exc |-> "ToolError"]
  /\ UNCHANGED <<kb_text, result, client, api_key, total_tokens_used,
                 pq_query, response, tool_result, log, calls, entry_tokens,
                 other_vars>>

\* the first response r arrives, costing n tokens; its parts are walked up
\* to the first function call, which is sent to the tool host
FirstResponse(r, n) ==
  /\ ppc = "first_request"
  /\ response' = r
  /\ total_tokens_used' = total_tokens_used + n
  /\ IF CallParts(r) # {}
     THEN /\ log' = log \o <<Event("llm_response", ""),
                             Event("tool_call",
                                   r.parts[FirstCall(r)].function_call)>>
          /\ ppc' = "tool_call"
          /\ UNCHANGED retval
     ELSE /\ log' = Append(log, Event("llm_response", ""))
          /\ ppc' = "returned"
          /\ retval' = [kind |-> "Direct", exc |-> "None"]
  /\ UNCHANGED <<kb_text, result, client, api_key, pq_query, tool_result,
                 calls, entry_tokens, other_vars>>

\* the first generate_content raises
FirstRequestFails ==
  /\ ppc = "first_request"
  /\ Raised("APIError")
  /\ UNCHANGED <<kb_text, result, client, api_key, total_tokens_used,
                 pq_query, response, tool_result, log, calls, entry_tokens,
                 other_vars>>

\* the tool call returns t: kb_text = result.content[0].text, the matcher
\* runs, and the final request is sent
ToolReturns(t) ==
  /\ ppc = "tool_call"
  /\ tool_result' = t
  /\ IF t.kind = "empty"
     THEN /\ log' = Append(log, Event("tool_result", ""))
          /\ Raised("IndexError")
          /\ UNCHANGED <<kb_text, result>>
     ELSE /\ kb_text' = t.text
          /\ IF Matcher(client, t.text, pq_query).pc = "KeyError"
             THEN /\ log' = log \o <<Event("tool_result", ""),
                                     Event("match", "")>>
                  /\ Raised("KeyError")
                  /\ UNCHANGED result
             ELSE /\ log' = log \o <<Event("tool_result", ""),
                                     Event("match", ""),
                                     Event("matched", ""),
                                     Event("llm_request", "")>>
                  /\ result' = Matcher(client, t.text, pq_query).result
                  /\ ppc' = "final_request"
                  /\ UNCHANGED retval
  /\ UNCHANGED <<client, api_key, total_tokens_used, pq_query, response,
                 calls, entry_tokens, other_vars>>

\* session.call_tool raises
ToolFails ==
  /\ ppc = "tool_call"
  /\ Raised("ToolError")
  /\ UNCHANGED <<kb_text, result, client, api_key, total_tokens_used,
                 pq_query, response, tool_result, log, calls, entry_tokens,
                 other_vars>>

\* the final response arrives: return final_response.text
FinalResponse ==
  /\ ppc = "final_request"
  /\ log' = Append(log, Event("llm_response", ""))
  /\ ppc' = "returned"
  /\ retval' = [kind |-> "Final", exc |-> "None"]
  /\ UNCHANGED <<kb_text, result, client, api_key, total_tokens_used,
                 pq_query, response, tool_result, calls, entry_tokens,
                 other_vars>>

\* the second generate_content raises
FinalRequestFails ==
  /\ ppc = "final_request"
  /\ Raised("APIError")
  /\ UNCHANGED <<kb_text, result, client, api_key, total_tokens_used,
                 pq_query, response, tool_result, log, calls, entry_tokens,
                 other_vars>>

NextQuery ==
  \/ \E q \in Queries : ProcessQuery(q)
  \/ ToolsListed
  \/ ListToolsFails
  \/ \E r \in Responses, n \in 0..MaxTokens : FirstResponse(r, n)
  \/ FirstRequestFails
  \/ \E t \in ToolResults : ToolReturns(t)
  \/ ToolFails
  \/ FinalResponse
  \/ FinalRequestFails

SpecQuery == InitQuery /\ [][NextQuery]_vars

(***************************************************************************)
(* Vocabulary of the properties.                                           *)
(***************************************************************************)
\* m occurs in t as a substring
Contains(t, m) ==
  \E p \in 1..(Len(t) - Len(m) + 1) : SubSeq(t, p, p + Len(m) - 1) = m

\* the find_matching_question call has finished, one way or the other
Finished == pc \in {"returned", "KeyError"}

\* the collector loop is over
Collected == pc \in {"normalize", "scan", "returned", "KeyError"}

\* overlap of the query with the k-th collected entry
EntryScore(k) ==
  Cardinality(Words(user_query) \cap Words(all_questions[k].q_text))

MaxEntryScore ==
  Max({0} \cup {EntryScore(k) : k \in 1..Len(all_questions)})

\* indices of the collected entries whose overlap is the largest
TopIndices ==
  {all_questions[k].q_num :
     k \in {x \in 1..Len(all_questions) : EntryScore(x) = MaxEntryScore}}

\* number of consecutive indices 1, 2, ... whose marker Q<n>: occurs in t
RECURSIVE MarkerRun(_, _)
MarkerRun(t, n) ==
  IF n >= RangeStop \/ ~Contains(t, Marker(n)) THEN n - 1
  ELSE MarkerRun(t, n + 1)

\* a line-start marker (newline, uppercase letter, digits, colon) begins at e
LineMarkerAt(t, e) ==
  /\ e + 3 <= Len(t)
  /\ t[e] = NL
  /\ t[e + 1] \in UpperChars
  /\ \E c \in (e + 3)..Len(t) :
       t[c] = ":" /\ \A k \in (e + 2)..(c - 1) : t[k] \in DigitChars

\* the text from right after the first marker Q<n>: up to the first later
\* line-start marker, or to the end of the text, trimmed
SpanAfterMarker(t, n) ==
  LET m == Marker(n)
      s == Min({p \in 1..(Len(t) - Len(m) + 1) :
                  SubSeq(t, p, p + Len(m) - 1) = m})
      a == s + Len(m)
      e == Min({x \in a..(Len(t) + 1) : x = Len(t) + 1 \/ LineMarkerAt(t, x)})
  IN  Strip(SubSeq(t, a, e - 1))

(***************************************************************************)
(* C1: whenever at least one question is collected the call returns, and   *)
(* no collected entry overlaps the query in more words than the returned   *)
(* entry does.                                                             *)
(***************************************************************************)
C1_ReturnsMaxScore ==
  /\ (Finished /\ Len(all_questions) >= 1) => pc = "returned"
  /\ pc = "returned" =>
       /\ result.index \in Keys(all_questions)
       /\ result.text = Item(all_questions, result.index)
       /\ \A k \in 1..Len(all_questions) :
            EntryScore(k) <= Cardinality(Words(user_query) \cap Words(result.text))

C1_Witness ==
  /\ pc = "returned"
  /\ Len(all_questions) >= 2
  /\ EntryScore(1) = 1
  /\ EntryScore(2) = 2
  /\ result.index = 2

(***************************************************************************)
(* C2: when several collected questions share the highest overlap and it   *)
(* is not zero, the one with the lowest index is returned.                 *)
(***************************************************************************)
C2_TieLowestIndex ==
  (pc = "returned" /\ MaxEntryScore > 0 /\ Cardinality(TopIndices) >= 2) =>
     /\ result.index = Min(TopIndices)
     /\ result.text = Item(all_questions, Min(TopIndices))

C2_Witness ==
  /\ pc = "returned"
  /\ MaxEntryScore > 0
  /\ Cardinality(TopIndices) >= 2
  /\ Min(TopIndices) = 2
  /\ result.index = 2

(***************************************************************************)
(* C3: when at least one question is collected and the query shares no     *)
(* normalised word with any of them (an empty query included), the call    *)
(* returns index 1 with the text of question 1 and a best score of 0.      *)
(***************************************************************************)
C3_DefaultOnNoMatch ==
  (Finished /\ Len(all_questions) >= 1 /\ MaxEntryScore = 0) =>
     /\ pc = "returned"
     /\ result.index = 1
     /\ get_question(kb_text, 1).found
     /\ result.text = get_question(kb_text, 1).text
     /\ highest_score = 0

C3_Witness ==
  /\ pc = "returned"
  /\ Len(all_questions) >= 2
  /\ Words(user_query) # {}
  /\ MaxEntryScore = 0
  /\ result.index = 1

(***************************************************************************)
(* C4: with no Q1: marker in kb_text the call does not end in the KeyError *)
(* of looking index 1 up in the empty collection.                          *)
(***************************************************************************)
C4_NoKeyErrorOnEmpty ==
  ~Contains(kb_text, Marker(1)) => pc # "KeyError"

(***************************************************************************)
(* C5: every kb_text that holds a Q1: marker, however degenerate, makes    *)
(* the call return an (index, text) result: it fails only without one.     *)
(***************************************************************************)
C5_FailsOnlyWithoutQ1 ==
  (Finished /\ Contains(kb_text, Marker(1))) => pc = "returned"

(***************************************************************************)
(* C6: a kb_text with a Q1: and a Q3: marker but no Q2: marker yields      *)
(* exactly one collected entry, of index 1, and what follows Q3: is in no  *)
(* collected entry.                                                        *)
(***************************************************************************)
C6_GapStop ==
  ( /\ Collected
    /\ Contains(kb_text, Marker(1))
    /\ Contains(kb_text, Marker(3))
    /\ ~Contains(kb_text, Marker(2)) ) =>
     /\ Len(all_questions) = 1
     /\ all_questions[1].q_num = 1
     /\ get_question(kb_text, 3).text # <<>> =>
          ~Contains(all_questions[1].q_text, get_question(kb_text, 3).text)

(***************************************************************************)
(* C7: the collection never holds more than 9 entries and index 10 is      *)
(* never probed; of ten or more sequential well-formed entries exactly     *)
(* entries 1..9 are collected, each with its own question, and entry 10    *)
(* is never the returned match.                                            *)
(***************************************************************************)
C7_NineEntryCeiling ==
  /\ Len(all_questions) <= 9
  /\ \A k \in 1..Len(probed) : probed[k] <= 9
  /\ \A n \in 10..MaxEntries, h \in 1..MaxEntries :
       (Collected /\ kb_text # <<>> /\ Head(kb_text) = Head(KbHeader)
          /\ kb_text = FormatKB(Items(n, h))) =>
          /\ all_questions =
               [k \in 1..9 |-> [q_num  |-> k,
                                q_text |-> Items(n, h)[k].question]]
          /\ h = 10 =>
               \A k \in 1..Len(all_questions) :
                 ~Contains(all_questions[k].q_text, Items(n, h)[10].question)
          /\ pc = "returned" => result.index \in 1..9

C7_Witness ==
  /\ pc = "returned"
  /\ kb_text = FormatKB(Items(10, 10))
  /\ Words(user_query) = Words(Items(10, 10)[10].question)
  /\ Len(all_questions) = 9
  /\ result.index = 1

(***************************************************************************)
(* C8: the collected indices are 1..k in insertion order, k being the      *)
(* smaller of 9 and the number of consecutive indices from 1 whose marker  *)
(* occurs in kb_text (an empty question text included).                    *)
(***************************************************************************)
C8_CollectsMarkerRun ==
  Collected =>
     /\ Len(all_questions) = MarkerRun(kb_text, 1)
     /\ \A k \in 1..Len(all_questions) : all_questions[k].q_num = k
     /\ \A k \in 1..Len(probed) : probed[k] = k

(***************************************************************************)
(* C9: get_question finds nothing exactly when the marker Q<index>: does   *)
(* not occur in kb_text; a marker with nothing after it yields the empty   *)
(* string.                                                                 *)
(***************************************************************************)
C9_NotFoundIffNoMarker ==
  pc = "extracted" =>
     /\ extracted.found <=> Contains(kb_text, Marker(q_num))
     /\ ( /\ Len(kb_text) >= Len(Marker(q_num))
          /\ SubSeq(kb_text, Len(kb_text) - Len(Marker(q_num)) + 1,
                    Len(kb_text)) = Marker(q_num)
          /\ ~Contains(SubSeq(kb_text, 1, Len(kb_text) - 1), Marker(q_num)) )
        => extracted = Found(<<>>)

C9_Witness ==
  /\ pc = "extracted"
  /\ Len(kb_text) > 3
  /\ SubSeq(kb_text, Len(kb_text) - 2, Len(kb_text)) = Marker(q_num)
  /\ extracted = Found(<<>>)

(***************************************************************************)
(* C10: with the marker present, get_question returns the trimmed text     *)
(* from right after the marker up to the first later line-start marker,    *)
(* or to the end of the text.                                              *)
(***************************************************************************)
C10_SpanToNextLineMarker ==
  (pc = "extracted" /\ Contains(kb_text, Marker(q_num))) =>
     /\ extracted.found
     /\ extracted.text = SpanAfterMarker(kb_text, q_num)

(***************************************************************************)
(* C14: whenever find_matching_question returns (index, question_text),    *)
(* get_question on the same kb_text and that index finds a question and    *)
(* it equals question_text.                                                *)
(***************************************************************************)
C14_IndexRoundTrip ==
  pc = "returned" =>
     /\ get_question(kb_text, result.index).found
     /\ get_question(kb_text, result.index).text = result.text

C14_Witness ==
  /\ pc = "returned"
  /\ result.index = 3
  /\ result.text # <<>>
  /\ get_question(kb_text, 3) = Found(result.text)
  /\ get_question(kb_text, 1) # Found(result.text)

(***************************************************************************)
(* C15: whenever find_matching_question returns, the returned index is     *)
(* one of the collected indices 1..k with k <= 9, an index that was        *)
(* extracted, and it is 1 whenever no collected entry scores above zero.   *)
(***************************************************************************)
C15_IndexIsCollected ==
  pc = "returned" =>
     /\ Len(all_questions) <= 9
     /\ Keys(all_questions) = 1..Len(all_questions)
     /\ result.index \in Keys(all_questions)
     /\ result.index \in {probed[k] : k \in 1..Len(probed)}
     /\ Truthy(get_question(kb_text, result.index))
     /\ MaxEntryScore = 0 => result.index = 1

C15_Witness ==
  /\ pc = "returned"
  /\ Len(all_questions) = 9
  /\ MaxEntryScore = 0
  /\ Words(user_query) # {}
  /\ result.index = 1

(***************************************************************************)
(* Vocabulary of the scorer's properties.                                  *)
(***************************************************************************)
\* str.upper() on one character
UpperChar(c) ==
  IF c \in LowerChars
  THEN UpperSeq[CHOOSE k \in 1..Len(LowerSeq) : LowerSeq[k] = c]
  ELSE c

Upper(t) == [k \in 1..Len(t) |-> UpperChar(t[k])]

\* some characters of string.punctuation
PunctChars == {"?", "!", ",", ".", "'", "-", "_"}

AlnumChars == UpperChars \cup LowerChars \cup DigitChars

\* t with its letter case changed, or with one punctuation character put
\* before its first or after its last word, or taken away there
Variants(t) ==
  {Lower(t), Upper(t)}
    \cup (IF t # <<>> /\ t[Len(t)] \in AlnumChars
          THEN {t \o <<c>> : c \in PunctChars} ELSE {})
    \cup (IF t # <<>> /\ t[1] \in AlnumChars
          THEN {<<c>> \o t : c \in PunctChars} ELSE {})
    \cup (IF Len(t) >= 2 /\ t[Len(t)] \in PunctChars
                         /\ t[Len(t) - 1] \in AlnumChars
          THEN {SubSeq(t, 1, Len(t) - 1)} ELSE {})

ExampleMixed == <<"W", "h", "a", "t", " ", "I", "S", " ", "t", "h", "e", " ",
                  "P", "o", "l", "i", "c", "y", "?">>

ExamplePlain == <<"w", "h", "a", "t", " ", "i", "s", " ", "t", "h", "e", " ",
                  "p", "o", "l", "i", "c", "y">>

(***************************************************************************)
(* C11: the score does not change when the letter case of the query or of  *)
(* the question changes, or when punctuation is put next to or taken away  *)
(* from a word boundary; "What IS the Policy?" scores against "what is the *)
(* policy" as "what is the policy" does.                                   *)
(***************************************************************************)
C11_CaseAndPunctuationInsensitive ==
  pc = "scored" =>
     /\ \A q2 \in Variants(query) :
          score_question(q2, question_text).score = scored.score
     /\ \A t2 \in Variants(question_text) :
          score_question(query, t2).score = scored.score
     /\ (query = ExampleMixed /\ question_text = ExamplePlain) =>
          scored.score = score_question(ExamplePlain, ExamplePlain).score

(***************************************************************************)
(* C12: the query and the question are normalised the same way, and no     *)
(* token of either word set holds a character that is not alphanumeric.    *)
(***************************************************************************)
C12_TokensAlphanumeric ==
  pc = "scored" =>
     /\ scored.user_words = Words(query)
     /\ scored.q_words = Words(question_text)
     /\ \A w \in scored.user_words \cup scored.q_words :
          \A k \in 1..Len(w) : w[k] \in AlnumChars

(***************************************************************************)
(* C13: the score is the number of distinct normalised words present in    *)
(* both texts: a repeated word counts once, no word is left out, the       *)
(* score is the same with the arguments swapped and never exceeds the      *)
(* number of distinct words of either text.                                *)
(***************************************************************************)
C13_ScoreIsSetOverlap ==
  pc = "scored" =>
     /\ scored.matching_words =
          {w \in scored.user_words : w \in scored.q_words}
     /\ scored.score = Cardinality(scored.matching_words)
     /\ scored.score = score_question(question_text, query).score
     /\ scored.score <= Cardinality(scored.user_words)
     /\ scored.score <= Cardinality(scored.q_words)

C13_Witness ==
  /\ pc = "scored"
  /\ query = <<"a", " ", "a", " ", "b">>
  /\ question_text = <<"b", ",", " ", "a">>
  /\ scored.score = 2
  /\ query = ExampleMixed \/ scored.matching_words = {<<"a">>, <<"b">>}

(***************************************************************************)
(* C17: on the sample knowledge base the query "How can I submit a report  *)
(* on expenses?" returns index 4, "How do I submit an expense report?",    *)
(* whose overlap with the query is strictly greater than that of each of   *)
(* the other four questions.                                               *)
(***************************************************************************)
C17_ExpenseQuerySelectsFour ==
  (pc = "returned" /\ kb_text = SampleText /\ user_query = ExpenseQuery) =>
     /\ Len(all_questions) = 5
     /\ result.index = 4
     /\ result.text = <<"H", "o", "w", " ", "d", "o", " ", "I", " ", "s",
         "u", "b", "m", "i", "t", " ", "a", "n", " ", "e", "x", "p", "e",
         "n", "s", "e", " ", "r", "e", "p", "o", "r", "t", "?">>
     /\ \A k \in {1, 2, 3, 5} : EntryScore(k) < EntryScore(4)

C17_Witness ==
  /\ pc = "returned"
  /\ kb_text = SampleText
  /\ user_query = ExpenseQuery
  /\ result.index = 4
  /\ highest_score = 4
  /\ EntryScore(2) = 3

(***************************************************************************)
(* C18: on the sample knowledge base the query "What is our company's      *)
(* vacation policy?" returns index 1 with an overlap of 6 shared words,    *)
(* the highest among the five questions.                                   *)
(***************************************************************************)
C18_VacationQuerySelectsOne ==
  (pc = "returned" /\ kb_text = SampleText /\ user_query = VacationQuery) =>
     /\ Len(all_questions) = 5
     /\ result.index = 1
     /\ highest_score = 6
     /\ EntryScore(1) = 6
     /\ \A k \in 2..5 : EntryScore(k) < 6

C18_Witness ==
  /\ pc = "returned"
  /\ kb_text = SampleText
  /\ user_query = VacationQuery
  /\ result.index = 1
  /\ result.text = VacationQuery
  /\ EntryScore(3) = 4

(***************************************************************************)
(* C19, as stated: the words matched by the scorer for the query "How can  *)
(* I submit a report on expenses?" against question 4 of the sample        *)
(* contain "submit", "report" and "expenses".                              *)
(***************************************************************************)
C19_MatchedHasExpenses ==
  (pc = "scored" /\ kb_text = SampleText /\ query = ExpenseQuery /\ q_num = 4) =>
     {<<"s", "u", "b", "m", "i", "t">>, <<"r", "e", "p", "o", "r", "t">>,
         <<"e", "x", "p", "e", "n", "s", "e",
         "s">>} \subseteq scored.matching_words

(***************************************************************************)
(* C19, amended: those matched words are exactly "how", "i", "submit" and  *)
(* "report"; "expenses" is not among them, question 4 having "expense".    *)
(***************************************************************************)
C19_MatchedWords ==
  (pc = "scored" /\ kb_text = SampleText /\ query = ExpenseQuery /\ q_num = 4) =>
     /\ question_text = <<"H", "o", "w", " ", "d", "o", " ", "I", " ", "s",
         "u", "b", "m", "i", "t", " ", "a", "n", " ", "e", "x", "p", "e",
         "n", "s", "e", " ", "r", "e", "p", "o", "r", "t", "?">>
     /\ scored.matching_words = {<<"h", "o", "w">>, <<"i">>, <<"s", "u", "b",
         "m", "i", "t">>, <<"r", "e", "p", "o", "r", "t">>}
     /\ scored.score = 4
     /\ <<"e", "x", "p", "e", "n", "s", "e", "s">> \in scored.user_words
     /\ <<"e", "x", "p", "e", "n", "s", "e", "s">> \notin scored.q_words
     /\ <<"e", "x", "p", "e", "n", "s", "e">> \in scored.q_words

C19_Witness ==
  /\ pc = "scored"
  /\ kb_text = SampleText
  /\ query = ExpenseQuery
  /\ q_num = 4
  /\ <<"s", "u", "b", "m", "i", "t">> \in scored.matching_words
  /\ <<"r", "e", "p", "o", "r", "t">> \in scored.matching_words
  /\ <<"e", "x", "p", "e", "n", "s", "e", "s">> \notin scored.matching_words

(***************************************************************************)
(* C20: callers run find_matching_question concurrently, in any            *)
(* interleaving; each ends with the outcome an invocation alone on the     *)
(* same inputs has, a step of one caller changes that caller's frame       *)
(* only, and kb_text, a call's user_query and server_process never change. *)
(***************************************************************************)
FrameOutcomeIsLone ==
  \A c \in Callers :
    frames[c].pc \in {"returned", "KeyError"} =>
       /\ frames[c].pc = find_matching_question(kb_text, frames[c].user_query).pc
       /\ frames[c].result =
            find_matching_question(kb_text, frames[c].user_query).result

FrameStepIsLocal ==
  /\ server_process' = server_process
  /\ kb_text' = kb_text
  /\ \E c \in Callers : \A o \in Callers \ {c} : frames'[o] = frames[o]
  /\ \A c \in Callers :
       frames[c].pc # "idle" => frames'[c].user_query = frames[c].user_query

C20_ConcurrentCallsIndependent ==
  /\ [](FrameOutcomeIsLone /\ server_process = "None")
  /\ [][FrameStepIsLocal]_vars

C20_Witness ==
  /\ frames[1].pc = "returned"
  /\ frames[2].pc = "returned"
  /\ frames[1].overlap \/ frames[2].overlap
  /\ frames[1].result.index = 1
  /\ frames[2].result.index = 2
  /\ frames[1].user_query # frames[2].user_query

\* every copy has been called with (kb_text, user_query)
AllCopiesRan == pc = "asked" /\ \A c \in CopyNames : copies[c].pc # "idle"

(***************************************************************************)
(* C21: the three copies of find_matching_question                         *)
(* (GeminiAI-integration/client.py, openAI-integration/client.py and       *)
(* tests/test.py) are equivalent: for every kb_text and user_query they    *)
(* return the same (index, question_text) or all fail, also when the       *)
(* query and the questions contain punctuation.                            *)
(***************************************************************************)
C21_CopiesEquivalent ==
  AllCopiesRan =>
    /\ copies["openai"] = copies["gemini"]
    /\ copies["test"] = copies["gemini"]

\* the scoring loop is under way or over; pos - 1 entries have been visited
Scanning == pc \in {"scan", "returned", "KeyError"}

\* largest overlap among the first j collected entries
MaxScoreUpTo(j) == Max({0} \cup {EntryScore(k) : k \in 1..j})

\* lowest index among the first j collected entries with that overlap
LowestTopUpTo(j) ==
  Min({all_questions[k].q_num :
         k \in {x \in 1..j : EntryScore(x) = MaxScoreUpTo(j)}})

ScanInvariant ==
  Scanning =>
    /\ pos - 1 \in 0..Len(all_questions)
    /\ \A k \in 1..Len(all_questions) : all_questions[k].q_num = k
    /\ pos - 1 >= 1 =>
         /\ highest_score = MaxScoreUpTo(pos - 1)
         /\ best_match = LowestTopUpTo(pos - 1)
         /\ MaxScoreUpTo(pos - 1) = 0 => best_match = 1

ScanStepMonotone ==
  (pc = "scan" /\ Scanning') =>
    /\ pos' \in {pos, pos + 1}
    /\ highest_score' >= highest_score
    /\ best_match' >= best_match
    /\ best_match' # best_match => highest_score' > highest_score

(***************************************************************************)
(* C22: scan invariant of the matcher loop.  Entries are visited in        *)
(* ascending index order; after the entry with index j has been visited,   *)
(* highest_score is the maximum score among entries 1..j and best_match is *)
(* the lowest index in 1..j attaining it (1 when the maximum is 0);        *)
(* across the scan highest_score and best_match never decrease, and        *)
(* best_match changes only in a step where highest_score strictly          *)
(* increases.                                                              *)
(***************************************************************************)
C22_ScanInvariant == []ScanInvariant /\ [][ScanStepMonotone]_vars

C22_Witness ==
  /\ pc = "scan"
  /\ pos = 4
  /\ EntryScore(1) = 0
  /\ EntryScore(2) = 1
  /\ EntryScore(3) = 1
  /\ highest_score = 1
  /\ best_match = 2

\* number of events of the kind ev in the log of the current call
Count(ev) == Cardinality({k \in 1..Len(log) : log[k].ev = ev})

\* the k-th event of the log has an event of the kind ev before it
Before(k, ev) == \E j \in 1..(k - 1) : log[j].ev = ev

\* the tool's text gives the collector no question
NoQuestionText ==
  tool_result.kind = "text" /\ CollectFrom(tool_result.text, 1) = <<>>

(***************************************************************************)
(* C23: in process_query, when the text returned by the tool call yields   *)
(* no collected question (the tool host's "Error: Knowledge base file not  *)
(* found", or the result of another tool), the matcher's failure does not  *)
(* propagate to the caller: process_query returns a string beginning with  *)
(* "Error calling GenAI API:" and the second LLM request is never issued.  *)
(***************************************************************************)
C23_MatcherFailureIsCaught ==
  NoQuestionText =>
    /\ ppc = "returned"
    /\ retval = [kind |-> "Error", exc |-> "KeyError"]
    /\ Count("llm_request") = 1
    /\ Count("matched") = 0

C23_Witness ==
  /\ tool_result = [kind |-> "text", text |-> NotFoundText]
  /\ Count("match") = 1
  /\ ppc = "returned"
  /\ retval.kind = "Error"

\* the first response has arrived
Responded == response.kind # "None"

\* every event of the kind ev has an event of the kind earlier before it
Follows(ev, earlier) ==
  \A k \in 1..Len(log) : log[k].ev = ev => Before(k, earlier)

RequestOrder ==
  /\ Count("llm_request") <= 2
  /\ Count("tool_call") <= 1
  /\ Follows("tool_call", "llm_response")
  /\ Count("tool_call") = 1 => (Responded /\ CallParts(response) # {})
  /\ Follows("match", "tool_result")
  /\ Follows("tool_result", "tool_call")
  /\ \A k \in 1..Len(log) :
       (log[k].ev = "llm_request" /\ Before(k, "llm_request"))
          => Before(k, "matched")

FirstCallOnly ==
  (Responded /\ CallParts(response) # {}) =>
    /\ \A k \in 1..Len(log) :
         log[k].ev = "tool_call" =>
           log[k].arg = response.parts[Min(CallParts(response))].function_call
    /\ ppc = "returned" => retval.kind \in {"Final", "Error"}

DirectWithoutCall ==
  (Responded /\ CallParts(response) = {}) =>
    /\ Count("tool_call") = 0
    /\ Count("llm_request") = 1
    /\ ppc = "returned"
    /\ retval.kind = "Direct"

NoKeyNoRequest ==
  api_key \in {"None", ""} =>
    /\ log = <<>>
    /\ total_tokens_used = entry_tokens
    /\ ppc = "returned" => retval.kind = "NoKey"

\* total_tokens_used grows only in the step that takes the first response
TokensStep ==
  /\ total_tokens_used' >= total_tokens_used
  /\ total_tokens_used' > total_tokens_used =>
       /\ ppc = "first_request"
       /\ Count("llm_response") = 0
       /\ log' = Append(log, Event("llm_response", ""))
            \/ \E name \in {"get_knowledge_base", "add"} :
                 log' = log \o <<Event("llm_response", ""),
                                 Event("tool_call", name)>>

====
